---------------------------- MODULE Spec2Model ----------------------------
(***************************************************************************)
(* Model of the F1 pit stop prediction service (ml-service).               *)
(*                                                                         *)
(*   model.py  TireDegradationModel: fit, predict_lap_time,                *)
(*             predict_pit_window, _remove_outliers,                       *)
(*             _generate_recommendation                                    *)
(*   main.py   predict_pitstop (the adapter in front of the estimator),    *)
(*             predict_strategy_impact (the strategy impact projection)    *)
(*                                                                         *)
(* Real numbers are exact rationals <<numerator, denominator>> with a      *)
(* positive denominator, in lowest terms.  Lap durations are whole         *)
(* seconds.  Race times of the strategy projection are counted in steps of *)
(* 1/Resolution millisecond, so that rounding to 3 decimals does work.     *)
(***************************************************************************)
EXTENDS Integers, Sequences, FiniteSets

(***************************************************************************)
(* Program constants.                                                      *)
(***************************************************************************)
MIN_LAPS_REQUIRED == 5

DefaultThreshold == 2

(***************************************************************************)
(* Bounds of the model.                                                    *)
(***************************************************************************)
\* longest stint handed to fit
MaxLaps == 6

\* largest current_stint_lap / max_stint_length of a predict_pit_window call
MaxStint == 8

\* lap durations a stint is drawn from (seconds)
Durations == {1, 2}

\* degradation_threshold values the estimator is constructed with
Thresholds == {1, DefaultThreshold}

(***************************************************************************)
(* Exact arithmetic.                                                       *)
(***************************************************************************)
Abs(i) == IF i < 0 THEN -i ELSE i

Max(i, j) == IF i >= j THEN i ELSE j

Min(i, j) == IF i <= j THEN i ELSE j

RECURSIVE GCD(_, _)
GCD(i, j) == IF j = 0 THEN i ELSE GCD(j, i % j)

\* the rational n/d (d # 0) in lowest terms with a positive denominator
Rat(n, d) ==
    LET g == GCD(Abs(n), Abs(d))
        s == IF d < 0 THEN -1 ELSE 1
    IN  <<s * (n \div g), s * (d \div g)>>

Zero == <<0, 1>>

One == <<1, 1>>

RatLess(p, q) == p[1] * q[2] < q[1] * p[2]

\* p / q for rationals, q # 0, cancelling before multiplying
RatDiv(p, q) ==
    LET g1 == GCD(Abs(p[1]), Abs(q[1]))
        g2 == GCD(p[2], q[2])
        n  == (p[1] \div g1) * (q[2] \div g2)
        d  == (p[2] \div g2) * (q[1] \div g1)
    IN  IF d < 0 THEN <<-n, -d>> ELSE <<n, d>>

RatSub(p, q) == Rat(p[1] * q[2] - q[1] * p[2], p[2] * q[2])

RECURSIVE SumSeq(_)
SumSeq(s) == IF s = <<>> THEN 0 ELSE Head(s) + SumSeq(Tail(s))

\* the first element instead of the least
FirstOfSeq(s) == s[1]

\* np.min
RECURSIVE MinSeq(_)
MinSeq(s) == IF Len(s) = 1 THEN s[1] ELSE Min(Head(s), MinSeq(Tail(s)))

\* the elements of s at the indices in keep, in their order in s
RECURSIVE Masked(_, _, _)
Masked(s, keep, i) ==
    IF i > Len(s) THEN <<>>
    ELSE (IF i \in keep THEN <<s[i]>> ELSE <<>>) \o Masked(s, keep, i + 1)

(***************************************************************************)
(* TireDegradationModel._remove_outliers.                                  *)
(*                                                                         *)
(* With n samples of sum S, |d - mean| < 2*std is                          *)
(*     n * (n*d - S)^2 < 4 * SUM (n*d_j - S)^2                             *)
(* and std = 0 is SUM (n*d_j - S)^2 = 0.                                   *)
(***************************************************************************)
Deviation(lap_durations, i) ==
    Abs(Len(lap_durations) * lap_durations[i] - SumSeq(lap_durations))

SquaredDeviations(lap_durations) ==
    SumSeq([i \in 1..Len(lap_durations) |->
                Deviation(lap_durations, i) * Deviation(lap_durations, i)])

\* mask = np.abs(lap_durations - mean_time) < 2 * std_time
TwoSigmaMask(lap_durations) ==
    {i \in 1..Len(lap_durations) :
        Len(lap_durations) * Deviation(lap_durations, i) * Deviation(lap_durations, i)
            < 4 * SquaredDeviations(lap_durations)}

\* ClosestToMean with the slice one short
ClosestToMeanOneShort(lap_durations) ==
    LET n == Len(lap_durations)
        k == Min(MIN_LAPS_REQUIRED - 1, n)
    IN  {keep \in SUBSET (1..n) :
            /\ Cardinality(keep) = k
            /\ \A i \in keep : \A j \in (1..n) \ keep :
                   Deviation(lap_durations, i) <= Deviation(lap_durations, j)}

\* sorted_indices[:MIN_LAPS_REQUIRED] of np.argsort(deviations): argsort's
\* default sort is not stable, so equal deviations may come in any order
ClosestToMean(lap_durations) ==
    LET n == Len(lap_durations)
        k == Min(MIN_LAPS_REQUIRED, n)
    IN  {keep \in SUBSET (1..n) :
            /\ Cardinality(keep) = k
            /\ \A i \in keep : \A j \in (1..n) \ keep :
                   Deviation(lap_durations, i) <= Deviation(lap_durations, j)}

\* _remove_outliers without the fallback to the laps closest to the mean
remove_outliers_no_fallback(lap_durations) ==
    IF SquaredDeviations(lap_durations) = 0
    THEN {1..Len(lap_durations)}
    ELSE {TwoSigmaMask(lap_durations)}

\* the masks _remove_outliers may return
remove_outliers(lap_durations) ==
    IF SquaredDeviations(lap_durations) = 0
    THEN {1..Len(lap_durations)}
    ELSE IF Cardinality(TwoSigmaMask(lap_durations)) < MIN_LAPS_REQUIRED
         THEN ClosestToMean(lap_durations)
         ELSE {TwoSigmaMask(lap_durations)}

(***************************************************************************)
(* The regressions of fit.  A stint holds each stint lap once, so the      *)
(* retained laps are distinct and the normal equations below have one      *)
(* solution, the least-squares fit LinearRegression returns.               *)
(***************************************************************************)
\* SUM x^2
SumSq(X) == SumSeq([i \in 1..Len(X) |-> X[i] * X[i]])

\* SUM x^p * y for p = 0, 1, 2
Moment(X, y, p) ==
    SumSeq([i \in 1..Len(X) |->
               (IF p = 0 THEN 1 ELSE IF p = 1 THEN X[i] ELSE X[i] * X[i]) * y[i]])

Det3(a, b, c, d, e, f, g, h, i) ==
    a * (e * i - f * h) - b * (d * i - f * g) + c * (d * h - e * g)

\* self.model.fit(X_clean, y_clean): the degree-2 curve
\* (a*x^2 + b*x + c) / D as <<a, b, c, D>>, by Cramer's rule
PolyFit(X, y) ==
    LET sq == [i \in 1..Len(X) |-> X[i] * X[i]]
        S0 == Len(X)
        S1 == SumSeq(X)
        S2 == SumSq(X)
        S3 == Moment(X, X, 2)
        S4 == Moment(X, sq, 2)
        T0 == Moment(X, y, 0)
        T1 == Moment(X, y, 1)
        T2 == Moment(X, y, 2)
    IN  << Det3(S0, S1, T0,  S1, S2, T1,  S2, S3, T2),
           Det3(S0, T0, S2,  S1, T1, S3,  S2, T2, S4),
           Det3(T0, S1, S2,  T1, S2, S3,  T2, S3, S4),
           Det3(S0, S1, S2,  S1, S2, S3,  S2, S3, S4) >>

\* numerator of the curve's value at stint lap x, over the denominator model[4]
PolyNum(model, x) == model[1] * x * x + model[2] * x + model[3]

\* self.model.predict([[x]])
PolyPredict(model, x) == Rat(PolyNum(model, x), model[4])

\* linear_model.fit(X_clean, y_clean).coef_[0]: the slope of the degree-1 fit
LinearSlope(X, y) ==
    Rat(Len(X) * Moment(X, y, 1) - SumSeq(X) * SumSeq(y),
        Len(X) * SumSq(X) - SumSeq(X) * SumSeq(X))

\* n * SUM (y - mean)^2
ScaledSpread(y) == Len(y) * SumSq(y) - SumSeq(y) * SumSeq(y)

\* np.std(y_clean), held as its square, the population variance
StdSquared(y) == Rat(ScaledSpread(y), Len(y) * Len(y))

\* ss_res = np.sum((y_clean - y_pred) ** 2)
SsRes(model, X, y) ==
    LET e == [i \in 1..Len(X) |-> model[4] * y[i] - PolyNum(model, X[i])]
    IN  Rat(SumSq(e), model[4] * model[4])

\* ss_tot = np.sum((y_clean - np.mean(y_clean)) ** 2)
SsTot(y) == Rat(ScaledSpread(y), Len(y))

\* 1 - ss_res/ss_tot if ss_tot > 0 else 0.0, clamped to [0, 1]
RSquared(model, X, y) ==
    LET raw == IF RatLess(Zero, SsTot(y))
               THEN RatSub(One, RatDiv(SsRes(model, X, y), SsTot(y)))
               ELSE Zero
    IN  IF RatLess(raw, Zero) THEN Zero
        ELSE IF RatLess(One, raw) THEN One ELSE raw

\* second_half_avg > first_half_avg, the halves y[:n//2] and y[n//2:]
IsDegrading(y) ==
    LET n    == Len(y)
        h    == n \div 2
        first  == SubSeq(y, 1, h)
        second == SubSeq(y, h + 1, n)
    IN  IF n > 1
        THEN SumSeq(second) * Len(first) > SumSeq(first) * Len(second)
        ELSE FALSE

(***************************************************************************)
(* The estimator: one TireDegradationModel object.                         *)
(*                                                                         *)
(* Exceptions are named after the error kinds they stand for:              *)
(*   InsufficientData       ValueError "Need at least 5 laps ..."          *)
(*   LengthMismatch         ValueError "... must have same length"         *)
(*   InsufficientCleanData  ValueError "Only n clean laps after ..."       *)
(*   NotFitted              RuntimeError "Model must be fitted ..."        *)
(***************************************************************************)
VARIABLES
    stint_laps,      \* the stint observed so far: stint lap numbers
    lap_durations,   \* ... and the duration of each of these laps
    estimator,       \* the fields of the TireDegradationModel object
    fit_succeeded,   \* history: some fit call has returned normally
    fit_failed,      \* history: a fit call has raised since the last one that returned
    result,          \* what the last call returned or raised
    drivers_data,    \* strategy impact request: the standings
    request,         \* the parameters of the request besides its list
    response         \* what predict_strategy_impact answered

vars == <<stint_laps, lap_durations, estimator, fit_succeeded, fit_failed, result,
          drivers_data, request, response>>

\* TireDegradationModel.__init__
NewEstimator(degradation_threshold) ==
    [ model                 |-> <<>>,
      degradation_threshold |-> degradation_threshold,
      is_fitted             |-> FALSE,
      base_lap_time         |-> 0,
      degradation_rate      |-> Zero,
      r_squared             |-> Zero,
      laps_analyzed         |-> 0,
      lap_time_std          |-> Zero,
      is_degrading          |-> TRUE ]

\* TooFewLaps with the comparison one lap off
TooFewLapsOffByOne(laps, durations) ==
    Len(laps) < MIN_LAPS_REQUIRED - 1 \/ Len(durations) < MIN_LAPS_REQUIRED - 1

\* the guard of fit's first raise
TooFewLaps(laps, durations) ==
    Len(laps) < MIN_LAPS_REQUIRED \/ Len(durations) < MIN_LAPS_REQUIRED

\* Raise by a fit that clears is_fitted on entry
RaiseUnfitted(self, exception) ==
    [self |-> [self EXCEPT !.is_fitted = FALSE], raised |-> exception]

\* a raise: the call ends with the exception, the fields as they are by then
Raise(self, exception) == [self |-> self, raised |-> exception]

\* fit from the outlier removal on, with the mask _remove_outliers returned
FitClean(self, laps, durations, mask) ==
    LET X_clean == Masked(laps, mask, 1)
        y_clean == Masked(durations, mask, 1)
        counted == [self EXCEPT !.laps_analyzed = Len(X_clean)]
        curve   == PolyFit(X_clean, y_clean)
    IN  IF Len(X_clean) < MIN_LAPS_REQUIRED
        THEN Raise(counted, "InsufficientCleanData")
        ELSE [self |->
                 [counted EXCEPT
                     !.model            = curve,
                     !.lap_time_std     = StdSquared(y_clean),
                     !.base_lap_time    = MinSeq(y_clean),
                     !.degradation_rate = LinearSlope(X_clean, y_clean),
                     !.is_degrading     = IsDegrading(y_clean),
                     !.r_squared        = RSquared(curve, X_clean, y_clean),
                     !.is_fitted        = TRUE],
              raised |-> "none"]

\* TireDegradationModel.fit: the outcomes of self.fit(laps, durations), each the
\* object's fields after the call and the exception raised, if any
fit(self, laps, durations) ==
    IF TooFewLaps(laps, durations)
    THEN {Raise(self, "InsufficientData")}
    ELSE IF Len(laps) # Len(durations)
         THEN {Raise(self, "LengthMismatch")}
         ELSE {FitClean(self, laps, durations, mask) :
                   mask \in remove_outliers(durations)}

\* the guard of predict_lap_time's and predict_pit_window's raise
NotFitted(self) == ~self.is_fitted

\* the first lap of future_laps whose predicted time exceeds threshold_time,
\* max_stint_length if there is none
RECURSIVE FirstCrossing(_, _, _)
FirstCrossing(self, lap, max_stint_length) ==
    IF lap > max_stint_length THEN max_stint_length
    ELSE IF RatLess(<<self.base_lap_time + self.degradation_threshold, 1>>,
                    PolyPredict(self.model, lap))
         THEN lap
         ELSE FirstCrossing(self, lap + 1, max_stint_length)

\* AtLeastNextLap with the floor at the current lap itself
AtLeastCurrentLap(optimal_pit_lap, current_stint_lap) ==
    Max(optimal_pit_lap, current_stint_lap)

\* optimal_pit_lap = max(optimal_pit_lap, current_stint_lap + 1)
AtLeastNextLap(optimal_pit_lap, current_stint_lap) ==
    Max(optimal_pit_lap, current_stint_lap + 1)

\* OptimalPitLap scanning for the crossing whether or not the tires degrade
OptimalPitLapAlwaysScanning(self, current_stint_lap, max_stint_length) ==
    AtLeastNextLap(
        IF RatLess(Zero, self.degradation_rate)
        THEN FirstCrossing(self, current_stint_lap, max_stint_length)
        ELSE max_stint_length,
        current_stint_lap)

\* the optimal_pit_lap of predict_pit_window
OptimalPitLap(self, current_stint_lap, max_stint_length) ==
    AtLeastNextLap(
        IF self.is_degrading /\ RatLess(Zero, self.degradation_rate)
        THEN FirstCrossing(self, current_stint_lap, max_stint_length)
        ELSE max_stint_length,
        current_stint_lap)

\* round(t, digits) of a rational t, counted in units of 1/scale with
\* scale = 10^digits; a tie goes to the even neighbour
Round(t, scale) ==
    LET q     == t[1] \div t[2]
        r     == (t[1] % t[2]) * scale
        down  == q * scale + (r \div t[2])
        twice == 2 * (r % t[2])
        up    == \/ twice > t[2]
                 \/ twice = t[2] /\ down % 2 = 1
    IN  down + (IF up THEN 1 ELSE 0)

\* [round(t, 3) for t in predicted_times[:10]]
PredictedLapTimes(self, current_stint_lap, max_stint_length) ==
    [i \in 1..Min(10, Max(0, max_stint_length + 1 - current_stint_lap)) |->
        Round(PolyPredict(self.model, current_stint_lap + i - 1), 1000)]

\* _generate_recommendation: the band of the text
Recommendation(self) ==
    LET rate == self.degradation_rate
        deg_rate == <<Abs(rate[1]), rate[2]>>
    IN  IF ~self.is_degrading
        THEN IF RatLess(rate, <<-2, 100>>) THEN "improving" ELSE "stable"
        ELSE IF RatLess(deg_rate, <<2, 100>>) THEN "minimal"
        ELSE IF RatLess(deg_rate, <<5, 100>>) THEN "low"
        ELSE IF RatLess(deg_rate, <<8, 100>>) THEN "moderate"
        ELSE IF RatLess(deg_rate, <<12, 100>>) THEN "high"
        ELSE "severe"

\* TireDegradationModel.predict_pit_window: the PitStopPrediction returned
\* (its confidence, a blend that takes a square root, is left out)
predict_pit_window(self, current_stint_lap, max_stint_length) ==
    [ optimal_pit_lap     |-> OptimalPitLap(self, current_stint_lap, max_stint_length),
      degradation_rate    |-> Round(self.degradation_rate, 10000),
      r2_score            |-> Round(self.r_squared, 1000),
      laps_analyzed       |-> self.laps_analyzed,
      predicted_lap_times |-> PredictedLapTimes(self, current_stint_lap, max_stint_length),
      is_degrading        |-> self.is_degrading,
      recommendation      |-> Recommendation(self) ]

NoCall == [op |-> "none", raised |-> "none", args |-> <<>>, value |-> <<>>]

NoResponse == [raised |-> "pending", value |-> <<>>]

(***************************************************************************)
(* main.py, predict_strategy_impact.  A driver is a record                 *)
(* [driver_number, total_time, avg_lap_time]; times are counted in steps   *)
(* of 1/Resolution millisecond.                                            *)
(***************************************************************************)
\* steps per millisecond
Resolution == 3

\* most drivers in a request
MaxDrivers == 5

\* (total_time, avg_lap_time) a driver is drawn from
Paces == {<<10, 4>>, <<10, 6>>, <<11, 4>>, <<11, 6>>}

PitStopTimes == {3, 6}

FreshTireAdvantages == {0, 2}

FreshTireLaps == {1, 5}

PitLaps == {1, 10}

\* StableSort with reverse=True
DescendingSort(s, key) ==
    LET place(i) == 1 + Cardinality({j \in 1..Len(s) :
                          key[j] > key[i] \/ (key[j] = key[i] /\ j < i)})
    IN  [p \in 1..Len(s) |-> s[CHOOSE i \in 1..Len(s) : place(i) = p]]

\* sorted(s, key=...) and list.sort(key=...): Python's sort is stable.  key[i]
\* is the key of s[i]; s[i] goes to the place counting the elements that sort
\* before it
StableSort(s, key) ==
    LET place(i) == 1 + Cardinality({j \in 1..Len(s) :
                          key[j] < key[i] \/ (key[j] = key[i] /\ j < i)})
    IN  [p \in 1..Len(s) |-> s[CHOOSE i \in 1..Len(s) : place(i) = p]]

\* index of the first TRUE of a sequence of booleans, 0 if there is none
FirstIndex(hits) ==
    IF \E i \in 1..Len(hits) : hits[i]
    THEN CHOOSE i \in 1..Len(hits) : hits[i] /\ \A j \in 1..(i - 1) : ~hits[j]
    ELSE 0

\* round(t, 3) of a time t >= 0 in steps, in milliseconds; a tie goes to the
\* even neighbour
RoundTime(t) == Round(<<t, Resolution>>, 1)

\* TargetProjectedTime with the fresh-tire gain taken off
TargetNetProjectedTime(target_driver, req) ==
    target_driver.total_time + req.pit_stop_time
        - req.fresh_tire_advantage * req.fresh_tire_laps

\* target_projected_time = target_driver.total_time + time_lost_in_pit
TargetProjectedTime(target_driver, req) ==
    target_driver.total_time + req.pit_stop_time

\* projected_time = driver.total_time + driver.avg_lap_time
OtherProjectedTime(driver) == driver.total_time + driver.avg_lap_time

\* the projected_standings list before it is sorted
ProjectedStandings(drivers, req, target_driver) ==
    [i \in 1..Len(drivers) |->
        IF drivers[i].driver_number = req.target_driver_number
        THEN [driver_number  |-> drivers[i].driver_number,
              projected_time |-> TargetProjectedTime(target_driver, req),
              is_target      |-> TRUE]
        ELSE [driver_number  |-> drivers[i].driver_number,
              projected_time |-> OtherProjectedTime(drivers[i]),
              is_target      |-> FALSE]]

\* a NearbyDriver of ahead_of or behind_of; position = i + 1 for the 0-based i
NearbyDriver(driver, gap, position) ==
    [driver_number |-> driver.driver_number,
     gap           |-> RoundTime(gap),
     position      |-> position]

\* the ahead_of loop: range(target_idx + 1, min(target_idx + 4, len)), with
\* target_pos = target_idx + 1
AheadOf(standings, target_pos, target_time) ==
    [k \in 1..(Min(target_pos + 3, Len(standings)) - target_pos) |->
        NearbyDriver(standings[target_pos + k],
                     standings[target_pos + k].projected_time - target_time,
                     target_pos + k)]

\* BehindOf without the reverse
BehindOfFarthestFirst(standings, target_pos, target_time) ==
    LET first == Max(1, target_pos - 3)
    IN  [k \in 1..(target_pos - first) |->
            NearbyDriver(standings[first + k - 1],
                         target_time - standings[first + k - 1].projected_time,
                         first + k - 1)]

\* the behind_of loop over range(max(0, target_idx - 3), target_idx), then
\* behind_of.reverse()
BehindOf(standings, target_pos, target_time) ==
    LET first == Max(1, target_pos - 3)
        listed == [k \in 1..(target_pos - first) |->
                     NearbyDriver(standings[first + k - 1],
                                  target_time - standings[first + k - 1].projected_time,
                                  first + k - 1)]
    IN  [k \in 1..Len(listed) |-> listed[Len(listed) + 1 - k]]

\* predict_strategy_impact past its two checks
StrategyImpact(drivers, req) ==
    LET IsTarget(s) ==
            [i \in 1..Len(s) |-> s[i].driver_number = req.target_driver_number]
        target_driver == drivers[FirstIndex(IsTarget(drivers))]
        sorted_drivers ==
            StableSort(drivers, [i \in 1..Len(drivers) |-> drivers[i].total_time])
        current_position == FirstIndex(IsTarget(sorted_drivers))
        time_gained == req.fresh_tire_advantage * req.fresh_tire_laps
        target_time == TargetProjectedTime(target_driver, req)
        unsorted == ProjectedStandings(drivers, req, target_driver)
        projected_standings ==
            StableSort(unsorted, [i \in 1..Len(unsorted) |-> unsorted[i].projected_time])
        projected_position ==
            FirstIndex([i \in 1..Len(projected_standings) |->
                           projected_standings[i].is_target])
    IN  [ current_position        |-> current_position,
          projected_position      |-> projected_position,
          position_change         |-> current_position - projected_position,
          time_lost_in_pit        |-> RoundTime(req.pit_stop_time),
          time_gained_fresh_tires |-> RoundTime(time_gained),
          net_time_impact         |-> Round(<<req.pit_stop_time - time_gained, Resolution>>, 1),
          ahead_of  |-> AheadOf(projected_standings, projected_position, target_time),
          behind_of |-> BehindOf(projected_standings, projected_position, target_time) ]

\* NoDriverData never noticing an empty list
NoDriverDataUnchecked(drivers) == FALSE

\* not request.drivers_data
NoDriverData(drivers) == drivers = <<>>

\* predict_strategy_impact: the HTTPException raised, if any, and the
\* StrategyImpactResponse returned
predict_strategy_impact(drivers, req) ==
    IF NoDriverData(drivers)
    THEN [raised |-> "EmptyStandings", value |-> <<>>]
    ELSE IF \A i \in 1..Len(drivers) :
                drivers[i].driver_number # req.target_driver_number
         THEN [raised |-> "DriverNotFound", value |-> <<>>]
         ELSE [raised |-> "none", value |-> StrategyImpact(drivers, req)]

(***************************************************************************)
(* The estimator as a state machine: one object, constructed with some     *)
(* threshold, on which fit and the predictions are called in any order.    *)
(* fit is handed the first laps of the stint.                              *)
(***************************************************************************)
Prefix(s, k) == SubSeq(s, 1, k)

DefaultFreshTireLaps == 5

IdleRequest ==
    [target_driver_number |-> 1, pit_lap |-> 10, pit_stop_time |-> 3,
     fresh_tire_advantage |-> 0, fresh_tire_laps |-> DefaultFreshTireLaps]

Init ==
    /\ stint_laps = [i \in 1..MaxLaps |-> i]
    /\ lap_durations \in [1..MaxLaps -> Durations]
    /\ \E degradation_threshold \in Thresholds :
           estimator = NewEstimator(degradation_threshold)
    /\ fit_succeeded = FALSE
    /\ fit_failed = FALSE
    /\ result = NoCall
    /\ drivers_data = <<>>
    /\ request = IdleRequest
    /\ response = NoResponse

\* estimator.fit(stint_laps[:k1], lap_durations[:k2])
Fit(k1, k2) ==
    /\ \E outcome \in fit(estimator, Prefix(stint_laps, k1), Prefix(lap_durations, k2)) :
          /\ estimator' = outcome.self
          /\ fit_succeeded' = (fit_succeeded \/ outcome.raised = "none")
          /\ fit_failed' = (outcome.raised # "none")
          /\ result' = [op |-> "fit", raised |-> outcome.raised,
                        args |-> <<k1, k2>>, value |-> <<>>]
    /\ UNCHANGED <<stint_laps, lap_durations, drivers_data, request, response>>

\* estimator.predict_lap_time(stint_lap)
PredictLapTime(stint_lap) ==
    /\ result' = IF NotFitted(estimator)
                 THEN [op |-> "predict_lap_time", raised |-> "NotFitted",
                       args |-> <<stint_lap>>, value |-> <<>>]
                 ELSE [op |-> "predict_lap_time", raised |-> "none",
                       args |-> <<stint_lap>>,
                       value |-> PolyPredict(estimator.model, stint_lap)]
    /\ UNCHANGED <<stint_laps, lap_durations, estimator, fit_succeeded, fit_failed,
                   drivers_data, request, response>>

\* estimator.predict_pit_window(current_stint_lap, max_stint_length)
PredictPitWindow(current_stint_lap, max_stint_length) ==
    /\ result' = IF NotFitted(estimator)
                 THEN [op |-> "predict_pit_window", raised |-> "NotFitted",
                       args |-> <<current_stint_lap, max_stint_length>>,
                       value |-> <<>>]
                 ELSE [op |-> "predict_pit_window", raised |-> "none",
                       args |-> <<current_stint_lap, max_stint_length>>,
                       value |-> predict_pit_window(estimator, current_stint_lap,
                                                    max_stint_length)]
    /\ UNCHANGED <<stint_laps, lap_durations, estimator, fit_succeeded, fit_failed,
                   drivers_data, request, response>>

Next ==
    \/ \E k1, k2 \in (MIN_LAPS_REQUIRED - 1)..MaxLaps : Fit(k1, k2)
    \/ \E stint_lap \in 1..MaxStint : PredictLapTime(stint_lap)
    \/ \E current_stint_lap \in MIN_LAPS_REQUIRED..(MaxStint + 1),
          max_stint_length \in (MaxStint - 2)..MaxStint :
            PredictPitWindow(current_stint_lap, max_stint_length)

Spec == Init /\ [][Next]_vars

(***************************************************************************)
(* The strategy impact endpoint as a state machine: a request arrives and  *)
(* is answered once.                                                       *)
(***************************************************************************)
Standings ==
    UNION {[1..n -> Paces] : n \in 0..MaxDrivers}

InitImpact ==
    /\ stint_laps = <<>>
    /\ lap_durations = <<>>
    /\ estimator = NewEstimator(DefaultThreshold)
    /\ fit_succeeded = FALSE
    /\ fit_failed = FALSE
    /\ result = NoCall
    /\ \E paces \in Standings :
          drivers_data = [i \in 1..Len(paces) |->
                            [driver_number |-> i,
                             total_time    |-> paces[i][1],
                             avg_lap_time  |-> paces[i][2]]]
    /\ request \in [target_driver_number : 1..MaxDrivers,
                    pit_lap              : {10},
                    pit_stop_time        : PitStopTimes,
                    fresh_tire_advantage : FreshTireAdvantages,
                    fresh_tire_laps      : {DefaultFreshTireLaps}]
    /\ response = NoResponse

Project ==
    /\ response = NoResponse
    /\ response' = predict_strategy_impact(drivers_data, request)
    /\ UNCHANGED <<stint_laps, lap_durations, estimator, fit_succeeded, fit_failed,
                   result, drivers_data, request>>

NextImpact == Project

SpecImpact == InitImpact /\ [][NextImpact]_vars

(***************************************************************************)
(* main.py, predict_pitstop: the adapter that filters the laps of a        *)
(* request, fits a new estimator on them and asks it for the pit window.   *)
(***************************************************************************)
\* lap durations a pit stop request is drawn from (seconds)
RequestDurations == {5, 6, 7}

\* median_duration = sorted(lap_durations)[len(lap_durations) // 2]
MedianDuration(durations) ==
    StableSort(durations, durations)[(Len(durations) \div 2) + 1]

\* duration < median_duration * 1.2
BelowCutoff(duration, median_duration) == 10 * duration < 12 * median_duration

\* the indices of the laps appended to valid_laps and valid_durations
ValidLaps(durations) ==
    {i \in 1..Len(durations) : BelowCutoff(durations[i], MedianDuration(durations))}

\* PreFilter handing on the filtered laps however few they are
PreFilterNoFallback(laps, durations) ==
    <<Masked(laps, ValidLaps(durations), 1),
      Masked(durations, ValidLaps(durations), 1)>>

\* <<valid_laps, valid_durations>> as handed to fit
PreFilter(laps, durations) ==
    IF Cardinality(ValidLaps(durations)) < MIN_LAPS_REQUIRED
    THEN <<laps, durations>>
    ELSE <<Masked(laps, ValidLaps(durations), 1),
           Masked(durations, ValidLaps(durations), 1)>>

\* max(stint_laps)
RECURSIVE MaxSeq(_)
MaxSeq(s) == IF Len(s) = 1 THEN s[1] ELSE Max(Head(s), MaxSeq(Tail(s)))

\* predict_pitstop: the outcomes of a request, each the estimator it built,
\* the HTTPException raised if any (named as the error kind), the arguments
\* fit was called with and the prediction answered
predict_pitstop(laps, durations, req) ==
    IF laps = <<>>
    THEN {[model |-> NewEstimator(req.degradation_threshold), raised |-> "NoLapData",
           fitted_on |-> <<>>, value |-> <<>>]}
    ELSE IF Len(laps) < MIN_LAPS_REQUIRED
    THEN {[model |-> NewEstimator(req.degradation_threshold),
           raised |-> "InsufficientData", fitted_on |-> <<>>, value |-> <<>>]}
    ELSE LET valid == PreFilter(laps, durations)
         IN  {IF outcome.raised # "none"
              THEN [model |-> outcome.self, raised |-> outcome.raised,
                    fitted_on |-> valid, value |-> <<>>]
              ELSE [model |-> outcome.self, raised |-> "none",
                    fitted_on |-> valid,
                    value |-> predict_pit_window(outcome.self, MaxSeq(laps),
                                                 req.max_stint_length)] :
                 outcome \in fit(NewEstimator(req.degradation_threshold),
                                 valid[1], valid[2])}

InitPitstop ==
    /\ \E n \in 0..MaxLaps :
          /\ stint_laps = [i \in 1..n |-> i]
          /\ lap_durations \in [1..n -> RequestDurations]
    /\ request \in [degradation_threshold : Thresholds,
                    max_stint_length      : (MaxStint - 1)..MaxStint]
    /\ estimator = NewEstimator(DefaultThreshold)
    /\ fit_succeeded = FALSE
    /\ fit_failed = FALSE
    /\ result = NoCall
    /\ drivers_data = <<>>
    /\ response = NoResponse

\* POST /predict/pitstop with the laps of the stint
PredictPitstop ==
    /\ result = NoCall
    /\ \E outcome \in predict_pitstop(stint_laps, lap_durations, request) :
          /\ estimator' = outcome.model
          /\ fit_succeeded' = outcome.model.is_fitted
          /\ fit_failed' = (outcome.raised # "none" /\ outcome.fitted_on # <<>>)
          /\ result' = [op |-> "predict_pitstop", raised |-> outcome.raised,
                        args |-> outcome.fitted_on, value |-> outcome.value]
    /\ UNCHANGED <<stint_laps, lap_durations, drivers_data, request, response>>

NextPitstop == PredictPitstop

SpecPitstop == InitPitstop /\ [][NextPitstop]_vars

(***************************************************************************)
(* Properties of the estimator, checked under Spec.                        *)
(***************************************************************************)
PitWindowReturned ==
    result.op = "predict_pit_window" /\ result.raised = "none"

\* the last call was fit on equally many laps and durations, at least
\* MIN_LAPS_REQUIRED of them
FitOnEnough ==
    /\ result.op = "fit"
    /\ result.args[1] = result.args[2]
    /\ result.args[1] >= MIN_LAPS_REQUIRED

FitReturned == result.op = "fit" /\ result.raised = "none"

FittedLaps == Prefix(stint_laps, result.args[1])

FittedDurations == Prefix(lap_durations, result.args[2])

\* the 2-sigma test alone leaves fewer than MIN_LAPS_REQUIRED of the durations
TwoSigmaLeavesTooFew(durations) ==
    /\ SquaredDeviations(durations) # 0
    /\ Cardinality(TwoSigmaMask(durations)) < MIN_LAPS_REQUIRED

\* C1, as claimed: the optimal_pit_lap returned by predict_pit_window is
\* greater than current_stint_lap and at most max_stint_length, for every
\* pair (current_stint_lap, max_stint_length).
C1_AlwaysWithinStint ==
    PitWindowReturned =>
        /\ result.value.optimal_pit_lap > result.args[1]
        /\ result.value.optimal_pit_lap <= result.args[2]

\* C1, amended: the optimal_pit_lap returned by predict_pit_window is greater
\* than current_stint_lap; it is at most max_stint_length when
\* current_stint_lap < max_stint_length, and current_stint_lap + 1 otherwise.
C1_AfterCurrentLap ==
    PitWindowReturned =>
        /\ result.value.optimal_pit_lap > result.args[1]
        /\ result.args[1] < result.args[2]
              => result.value.optimal_pit_lap <= result.args[2]
        /\ result.args[1] >= result.args[2]
              => result.value.optimal_pit_lap = result.args[1] + 1

\* a pit window in which the threshold is crossed after the next lap and
\* before the end of the stint
C1_Witness ==
    /\ PitWindowReturned
    /\ result.args[1] + 1 < result.value.optimal_pit_lap
    /\ result.value.optimal_pit_lap < result.args[2]

\* C2, as claimed: fit on at least MIN_LAPS_REQUIRED samples fails with
\* InsufficientCleanData whenever the 2-sigma removal leaves fewer than
\* MIN_LAPS_REQUIRED samples.
C2_FailsWhenRemovalLeavesTooFew ==
    (FitOnEnough /\ TwoSigmaLeavesTooFew(FittedDurations))
        => result.raised = "InsufficientCleanData"

\* C2, amended: fit on at least MIN_LAPS_REQUIRED samples never fails with
\* InsufficientCleanData; when the 2-sigma removal leaves fewer than
\* MIN_LAPS_REQUIRED samples the MIN_LAPS_REQUIRED samples closest to the mean
\* are retained instead and fit succeeds with laps_analyzed = MIN_LAPS_REQUIRED.
C2_FallbackKeepsFit ==
    /\ FitOnEnough => result.raised # "InsufficientCleanData"
    /\ (FitOnEnough /\ TwoSigmaLeavesTooFew(FittedDurations)) =>
          /\ result.raised = "none"
          /\ estimator.is_fitted
          /\ estimator.laps_analyzed = MIN_LAPS_REQUIRED

\* fit has returned on a stint of which the 2-sigma test dropped a lap
C2_Witness ==
    /\ FitOnEnough
    /\ TwoSigmaLeavesTooFew(FittedDurations)
    /\ result.raised = "none"

\* C3: a fit call with fewer than MIN_LAPS_REQUIRED samples fails with
\* InsufficientData and leaves every field of the estimator as it was.
C3_ShortFitChangesNothing ==
    [][ ( /\ result'.op = "fit"
          /\ \/ result'.args[1] < MIN_LAPS_REQUIRED
             \/ result'.args[2] < MIN_LAPS_REQUIRED )
        => /\ result'.raised = "InsufficientData"
           /\ estimator' = estimator ]_vars

\* a fitted estimator after a fit call with too few samples
C3_Witness ==
    /\ result.op = "fit"
    /\ result.args[1] < MIN_LAPS_REQUIRED
    /\ result.raised = "InsufficientData"
    /\ estimator.is_fitted
    /\ estimator.laps_analyzed >= MIN_LAPS_REQUIRED

\* C4: the estimator is fitted exactly when some earlier fit call returned,
\* and a prediction fails with NotFitted exactly when none did.
C4_NotFittedIffNoFitSucceeded ==
    /\ estimator.is_fitted <=> fit_succeeded
    /\ result.op \in {"predict_pit_window", "predict_lap_time"}
          => (result.raised = "NotFitted" <=> ~fit_succeeded)

\* a fit failed on a fitted estimator, and predict_pit_window still returned
C4_Witness ==
    /\ PitWindowReturned
    /\ fit_succeeded
    /\ fit_failed

\* C5: when fit returns on n samples, MIN_LAPS_REQUIRED <= laps_analyzed <= n,
\* and a fitted estimator always has laps_analyzed >= MIN_LAPS_REQUIRED.
C5_LapsAnalyzedBounds ==
    /\ FitReturned =>
          /\ MIN_LAPS_REQUIRED <= estimator.laps_analyzed
          /\ estimator.laps_analyzed <= result.args[1]
    /\ estimator.is_fitted => estimator.laps_analyzed >= MIN_LAPS_REQUIRED

\* fit has returned having dropped an outlier
C5_Witness ==
    /\ FitReturned
    /\ estimator.laps_analyzed < result.args[1]

\* s with the elements at i and j exchanged
Swap(s, i, j) == [s EXCEPT ![i] = s[j], ![j] = s[i]]

\* the samples a mask retains, as a set of (stint_lap, duration) pairs
Retained(laps, durations, mask) == {<<laps[i], durations[i]>> : i \in mask}

RetainedSets(laps, durations) ==
    {Retained(laps, durations, mask) : mask \in remove_outliers(durations)}

\* fit fields that do not depend on the order of the samples
OrderFreeFields ==
    {"laps_analyzed", "base_lap_time", "degradation_rate", "r_squared"}

\* every fit of the samples with two of them exchanged returns, retaining the
\* same samples, and agrees with the estimator on the fields
SameUnderExchanges(fields) ==
    \A i, j \in 1..Len(FittedLaps) :
        LET laps      == Swap(FittedLaps, i, j)
            durations == Swap(FittedDurations, i, j)
        IN  /\ RetainedSets(laps, durations)
                  = RetainedSets(FittedLaps, FittedDurations)
            /\ \A outcome \in fit(estimator, laps, durations) :
                  /\ outcome.raised = "none"
                  /\ \A f \in fields : outcome.self[f] = estimator[f]

\* C6, as claimed: a fit of the same samples in another order yields the same
\* retained samples, laps_analyzed, base_lap_time, degradation_rate, r_squared
\* and is_degrading.
C6_OrderFreeWithIsDegrading ==
    FitReturned => SameUnderExchanges(OrderFreeFields \cup {"is_degrading"})

\* C6, amended: a fit of the same samples in another order yields the same
\* retained samples, laps_analyzed, base_lap_time, degradation_rate and
\* r_squared; is_degrading depends on the order of the samples.
C6_OrderFree ==
    FitReturned => SameUnderExchanges(OrderFreeFields)

\* fit has returned through the closest-to-the-mean fallback, on samples of
\* which some exchange changes is_degrading
C6_Witness ==
    /\ FitReturned
    /\ TwoSigmaLeavesTooFew(FittedDurations)
    /\ \E i, j \in 1..Len(FittedLaps) :
          \E outcome \in fit(estimator, Swap(FittedLaps, i, j),
                             Swap(FittedDurations, i, j)) :
              outcome.self.is_degrading # estimator.is_degrading

\* the laps of current_stint_lap..max_stint_length at which the fitted curve
\* lies above base_lap_time + degradation_threshold
LapsOverThreshold(current_stint_lap, max_stint_length) ==
    {lap \in current_stint_lap..max_stint_length :
        PolyNum(estimator.model, lap) >
            (estimator.base_lap_time + estimator.degradation_threshold)
                * estimator.model[4]}

\* C11: before the floor at current_stint_lap + 1, optimal_pit_lap is the
\* smallest lap of current_stint_lap..max_stint_length whose predicted duration
\* is strictly greater than base_lap_time + degradation_threshold when
\* is_degrading and degradation_rate > 0, max_stint_length if there is no such
\* lap, and max_stint_length without a search otherwise.
C11_OptimalPitLapSelection ==
    PitWindowReturned =>
        LET current_stint_lap == result.args[1]
            max_stint_length  == result.args[2]
            over == LapsOverThreshold(current_stint_lap, max_stint_length)
            selected ==
                IF estimator.is_degrading /\ estimator.degradation_rate[1] > 0
                   /\ over # {}
                THEN CHOOSE lap \in over : \A other \in over : lap <= other
                ELSE max_stint_length
        IN  result.value.optimal_pit_lap = Max(selected, current_stint_lap + 1)

\* degrading tires whose curve first crosses the threshold after the next lap
\* and before the end of the stint
C11_Witness ==
    /\ PitWindowReturned
    /\ estimator.is_degrading
    /\ estimator.degradation_rate[1] > 0
    /\ result.args[1] + 1 < result.value.optimal_pit_lap
    /\ result.value.optimal_pit_lap < result.args[2]
    /\ result.value.optimal_pit_lap
          \in LapsOverThreshold(result.args[1], result.args[2])
    /\ result.value.optimal_pit_lap - 1
          \notin LapsOverThreshold(result.args[1], result.args[2])

(***************************************************************************)
(* Properties of the adapter, checked under SpecPitstop.                   *)
(***************************************************************************)
\* the request got as far as calling fit
FitCalled == result.op = "predict_pitstop" /\ result.args # <<>>

\* the median of the request's durations: the upper of the two middle ones
\* when their number is even
MedianOfRequest ==
    CHOOSE m \in {lap_durations[i] : i \in 1..Len(lap_durations)} :
        LET half == Len(lap_durations) \div 2
        IN  /\ Cardinality({i \in 1..Len(lap_durations) : lap_durations[i] < m}) <= half
            /\ Cardinality({i \in 1..Len(lap_durations) : lap_durations[i] <= m}) > half

\* fit was called with the laps at the indices kept, or with all the laps of
\* the request when fewer than MIN_LAPS_REQUIRED are kept
FitCalledWith(kept) ==
    IF Cardinality(kept) < MIN_LAPS_REQUIRED
    THEN result.args = <<stint_laps, lap_durations>>
    ELSE result.args = <<Masked(stint_laps, kept, 1), Masked(lap_durations, kept, 1)>>

\* C12, as claimed: the adapter removes exactly the samples whose duration
\* exceeds 1.2 times the median (a sample at or below it is kept), and passes
\* all the samples when that would leave fewer than MIN_LAPS_REQUIRED.
C12_RemovesAboveCutoff ==
    FitCalled =>
        FitCalledWith({i \in 1..Len(lap_durations) :
                          10 * lap_durations[i] <= 12 * MedianOfRequest})

\* C12, amended: the adapter removes exactly the samples whose duration is at
\* least 1.2 times the median (a sample strictly below it is kept), and passes
\* all the samples when that would leave fewer than MIN_LAPS_REQUIRED.
C12_RemovesAtOrAboveCutoff ==
    FitCalled =>
        FitCalledWith({i \in 1..Len(lap_durations) :
                          10 * lap_durations[i] < 12 * MedianOfRequest})

\* fit was called without a lap whose duration is exactly 1.2 times the median
C12_Witness ==
    /\ FitCalled
    /\ result.raised = "none"
    /\ Len(result.args[2]) < Len(lap_durations)
    /\ \E i \in 1..Len(lap_durations) :
          10 * lap_durations[i] = 12 * MedianOfRequest

(***************************************************************************)
(* Properties of the strategy projection, checked under SpecImpact.        *)
(***************************************************************************)
Projected == response.raised = "none"

Gaps(nearby) == [k \in 1..Len(nearby) |-> nearby[k].gap]

TargetTime ==
    LET i == CHOOSE i \in 1..Len(drivers_data) :
                 drivers_data[i].driver_number = request.target_driver_number
    IN  drivers_data[i].total_time + request.pit_stop_time

\* the projected time of driver number n, not the target
TimeOf(n) ==
    LET i == CHOOSE i \in 1..Len(drivers_data) : drivers_data[i].driver_number = n
    IN  drivers_data[i].total_time + drivers_data[i].avg_lap_time

\* behind_of lists the min(3, projected_position - 1) places before the
\* target's, nearest first
BehindOfPlaces ==
    LET behind == response.value.behind_of
        pos    == response.value.projected_position
    IN  /\ Len(behind) = Min(3, pos - 1)
        /\ \A k \in 1..Len(behind) : behind[k].position = pos - k

PlaceOfTarget(mine, other) ==
    LET me == CHOOSE i \in 1..Len(drivers_data) :
                  drivers_data[i].driver_number = request.target_driver_number
    IN  1 + Cardinality({i \in 1..Len(drivers_data) :
              /\ i # me
              /\ \/ other[i] < mine
                 \/ other[i] = mine /\ i < me})

\* the requests that differ from the request at most in fresh_tire_advantage,
\* fresh_tire_laps and pit_lap
SameButFreshTiresAndLap ==
    {[request EXCEPT !.fresh_tire_advantage = a, !.fresh_tire_laps = n, !.pit_lap = l] :
        a \in FreshTireAdvantages, n \in FreshTireLaps, l \in PitLaps}

Ranking(value) ==
    <<value.projected_position, value.position_change, value.ahead_of,
      value.behind_of>>

\* C9: the target is ranked by total_time + pit_stop_time against the other
\* drivers' total_time + avg_lap_time in a stable ascending sort,
\* position_change = current_position - projected_position, and the ranking
\* does not depend on fresh_tire_advantage, fresh_tire_laps or pit_lap.
C9_RankingIgnoresFreshTires ==
    Projected =>
        LET n == Len(drivers_data)
            me == CHOOSE i \in 1..n :
                      drivers_data[i].driver_number = request.target_driver_number
        IN  /\ response.value.projected_position =
                  PlaceOfTarget(drivers_data[me].total_time + request.pit_stop_time,
                                [i \in 1..n |-> drivers_data[i].total_time
                                                   + drivers_data[i].avg_lap_time])
            /\ response.value.current_position =
                  PlaceOfTarget(drivers_data[me].total_time,
                                [i \in 1..n |-> drivers_data[i].total_time])
            /\ response.value.position_change =
                  response.value.current_position - response.value.projected_position
            /\ \A other \in SameButFreshTiresAndLap :
                  LET again == predict_strategy_impact(drivers_data, other)
                  IN  /\ again.raised = "none"
                      /\ Ranking(again.value) = Ranking(response.value)

\* a request with a fresh-tire advantage whose target changes place
C9_Witness ==
    /\ Projected
    /\ request.fresh_tire_advantage > 0
    /\ response.value.position_change # 0
    /\ response.value.ahead_of # <<>>
    /\ response.value.behind_of # <<>>

ResponseFields ==
    {"current_position", "projected_position", "position_change",
     "time_lost_in_pit", "time_gained_fresh_tires", "net_time_impact",
     "ahead_of", "behind_of"}

\* C10: an empty drivers_data is answered with EmptyStandings, a non-empty one
\* without the target with DriverNotFound, both without a result record; any
\* other request is answered with a StrategyImpactResponse.
C10_ErrorsOfProject ==
    response # NoResponse =>
        LET present == \E i \in 1..Len(drivers_data) :
                drivers_data[i].driver_number = request.target_driver_number
        IN  /\ drivers_data = <<>>
                  => response = [raised |-> "EmptyStandings", value |-> <<>>]
            /\ (drivers_data # <<>> /\ ~present)
                  => response = [raised |-> "DriverNotFound", value |-> <<>>]
            /\ (drivers_data # <<>> /\ present)
                  => /\ response.raised = "none"
                     /\ DOMAIN response.value = ResponseFields

\* an empty request has been answered
C10_Witness ==
    /\ drivers_data = <<>>
    /\ response.raised = "EmptyStandings"

=============================================================================
